---- MODULE Spec2Model ----
(***************************************************************************)
(* ArgComb (src/argcomb.py): the condition algebra and its evaluator, the  *)
(* call-site binder _get_arg_dict, the validator _check_all/_check and the *)
(* wrapper ret that intercepts every call of a decorated function.       *)
(*                                                                         *)
(* Python values are modelled as strings: "None" is None, "1", "2", "3"    *)
(* are ordinary values, and Else is the sentinel object of line 195.       *)
(* A dict is a TLA+ function whose DOMAIN is its key set; a dict whose     *)
(* iteration order matters (a rule set, a value-keyed ArgumentSpec) is a   *)
(* sequence of its items in insertion order.                               *)
(***************************************************************************)
EXTENDS Integers, Sequences, FiniteSets, TLC

VARIABLES
    \* the condition evaluator on its own (SpecEval)
    condition,      \* the Condition tree constructed so far
    nesting,        \* how many derived conditions are nested in it
    supplied,       \* the arg_dict the tree is evaluated against
    verdict,        \* <<>> before _validate ran, <<its result>> after
    \* the decorated function and its rule set
    func,           \* what the wrapper reads of func: __code__, __defaults__, ...
    _default,       \* argcomb._default
    _spec,          \* argcomb._spec, as the sequence of its items
    \* one intercepted call per caller
    pc,             \* where each caller is inside ret
    call,           \* the (args, kwargs) the caller passed
    arg_dict,       \* the local arg_dict of ret
    warned,         \* the names warnings.warn was called for
    error,          \* the exception raised by _check_all, or NoError
    log,            \* the conditions _validate was asked about, in order
    executed,       \* how often the wrapped body ran for this call
    received,       \* the (args, kwargs) the wrapped body was called with
    result          \* what the body returned and what ret returned

vars == <<condition, nesting, supplied, verdict, func, _default, _spec,
          pc, call, arg_dict, warned, error, log, executed, received, result>>

evalVars == <<condition, nesting, supplied, verdict>>
ruleVars == <<func, _default, _spec>>
callVars == <<pc, call, arg_dict, warned, error, log, executed, received, result>>

----------------------------------------------------------------------------
(* Bounds of the model *)

MaxChildren == 3    \* longest args list of a derived condition
MaxNesting == 2     \* deepest nesting of derived conditions
MaxExtra == 1       \* positional values beyond the positional parameters

----------------------------------------------------------------------------
(* Python helpers *)

EmptyDict == <<>>

Min(m, n) == IF m < n THEN m ELSE n

\* d1.update(d2): the keys of d2 win
Update(d1, d2) == d2 @@ d1

\* {k: d[k] for k in keys}
Restrict(d, keys) == [k \in keys |-> d[k]]

----------------------------------------------------------------------------
(* Conditions: a str, or a DerivedCondition with its type_ and args *)

Else == "<Else>"
None == [type |-> "None", name |-> "", args |-> <<>>]

Str(n) == [type |-> "str", name |-> n, args |-> <<>>]
DerivedCondition(type_, args) == [type |-> type_, name |-> "", args |-> args]
Or(args) == DerivedCondition("OR", args)
And(args) == DerivedCondition("AND", args)
Xor(args) == DerivedCondition("XOR", args)
\* Not._validate: a Not is constructed with exactly one child
Not(arg) == DerivedCondition("NOT", <<arg>>)

\* bool(x) of an Optional[Condition]: None and the empty str are falsy, a
\* DerivedCondition defines neither __bool__ nor __len__ and is truthy
Truthy(c) == ~(c.type = "None") /\ ~(c.type = "str" /\ c.name = "")

\* type_.name.capitalize()
Capitalize(type_) ==
    CASE type_ = "NOT" -> "Not"
      [] type_ = "AND" -> "And"
      [] type_ = "OR" -> "Or"
      [] type_ = "XOR" -> "Xor"

RECURSIVE Repr(_)
RECURSIVE JoinRepr(_, _)
\* ", ".join(repr(a) for a in args), from the i-th child on
JoinRepr(args, i) ==
    IF i > Len(args) THEN ""
    ELSE IF i = Len(args) THEN Repr(args[i])
    ELSE Repr(args[i]) \o ", " \o JoinRepr(args, i + 1)

\* repr(condition): a str in quotes, a DerivedCondition by its __repr__
Repr(c) ==
    IF c.type = "str" THEN "'" \o c.name \o "'"
    ELSE Capitalize(c.type) \o "(" \o JoinRepr(c.args, 1) \o ")"

\* f"{condition}": str() of a str is the str itself
Format(c) == IF c.type = "str" THEN c.name ELSE Repr(c)

----------------------------------------------------------------------------
(* argcomb._validate, with the loops of its Or, Xor and And branches *)

RECURSIVE _validate(_, _)
RECURSIVE OrLoop(_, _, _)
RECURSIVE XorLoop(_, _, _, _)
RECURSIVE AndLoop(_, _, _)

\* for arg in condition.args: if self._validate(arg_dict, arg): return True
OrLoop(d, args, i) ==
    IF i > Len(args) THEN FALSE
    ELSE IF _validate(d, args[i]) THEN TRUE
    ELSE OrLoop(d, args, i + 1)

\* a bug the Xor branch could have: true children toggle found_true
XorLoopParity(d, args, i, found_true) ==
    IF i > Len(args) THEN found_true
    ELSE IF _validate(d, args[i]) THEN XorLoop(d, args, i + 1, ~found_true)
    ELSE XorLoop(d, args, i + 1, found_true)

\* found_true = False; for arg in condition.args: ...; return found_true
XorLoop(d, args, i, found_true) ==
    IF i > Len(args) THEN found_true
    ELSE IF _validate(d, args[i])
         THEN IF found_true THEN FALSE
              ELSE XorLoop(d, args, i + 1, TRUE)
         ELSE XorLoop(d, args, i + 1, found_true)

\* for arg in condition.args: if not self._validate(arg_dict, arg): return False
AndLoop(d, args, i) ==
    IF i > Len(args) THEN TRUE
    ELSE IF ~_validate(d, args[i]) THEN FALSE
    ELSE AndLoop(d, args, i + 1)

_validate(d, c) ==
    CASE c.type = "str" -> c.name \in DOMAIN d
      [] c.type = "NOT" -> ~_validate(d, c.args[1])
      [] c.type = "OR" -> OrLoop(d, c.args, 1)
      [] c.type = "XOR" -> XorLoop(d, c.args, 1, FALSE)
      [] c.type = "AND" -> AndLoop(d, c.args, 1)

----------------------------------------------------------------------------
(* What a condition means: the boolean semantics the claims refer to *)

RECURSIVE Holds(_, _)
\* the reference semantics: the number of true children decides
Holds(S, c) ==
    LET true == {i \in 1..Len(c.args) : Holds(S, c.args[i])}
    IN CASE c.type = "str" -> c.name \in S
         [] c.type = "NOT" -> true = {}
         [] c.type = "AND" -> Cardinality(true) = Len(c.args)
         [] c.type = "OR" -> Cardinality(true) >= 1
         [] c.type = "XOR" -> Cardinality(true) = 1

----------------------------------------------------------------------------
(* The evaluator on its own: conditions are constructed bottom-up, as the  *)
(* constructors are called, and evaluated against one arg_dict.            *)

EvalNames == {"a", "b"}

\* the arg_dict in which exactly the names of S were supplied
DictOf(S) == [n \in S |-> "1"]

\* args lists of a derived condition around the tree built so far: copies
\* of the name "a", with the tree at one position or left out
ArgsAround(c) ==
    UNION {
        {[i \in 1..n |-> IF i = k THEN c ELSE Str("a")] : k \in 0..n}
        : n \in 0..MaxChildren }

\* DerivedCondition.__init__ (Or, And, Xor) and Not.__init__
Construct ==
    /\ nesting < MaxNesting
    /\ \/ \E type_ \in {"OR", "AND", "XOR"}, args \in ArgsAround(condition) :
              condition' = DerivedCondition(type_, args)
       \/ condition' = Not(condition)
    /\ nesting' = nesting + 1
    /\ verdict' = <<>>
    /\ UNCHANGED <<supplied, ruleVars, callVars>>

\* self._validate(arg_dict, condition)
Validate ==
    /\ verdict = <<>>
    /\ verdict' = <<_validate(supplied, condition)>>
    /\ UNCHANGED <<condition, nesting, supplied, ruleVars, callVars>>

----------------------------------------------------------------------------
(* The decorated function, as ret reads it (lines 282-295):              *)
(* func.__code__.co_varnames lists the positional parameters, then the     *)
(* keyword-only ones, then the *args and **kwargs collectors, then the     *)
(* local variables of the body; func.__defaults__ holds the defaults of    *)
(* the last positional parameters and func.__kwdefaults__ those of the     *)
(* keyword-only parameters (None is modelled as the empty tuple or dict).  *)

ParamPool == <<"a", "b", "c">>
DefaultValues == {"None"}

Function(P, Q, K, nd, kwd, varargs, varkw, locals) ==
    [co_varnames |-> SubSeq(ParamPool, 1, P + K)
                     \o (IF varargs THEN <<"args">> ELSE <<>>)
                     \o (IF varkw THEN <<"kwargs">> ELSE <<>>)
                     \o locals,
     co_argcount |-> P,
     co_posonlyargcount |-> Q,
     co_kwonlyargcount |-> K,
     varargs |-> varargs,
     varkw |-> varkw,
     defaults |-> [i \in 1..nd |-> CHOOSE v \in DefaultValues : TRUE],
     kwdefaults |-> kwd]

\* every signature over the parameter pool
Functions ==
    UNION { UNION {
        { Function(P, Q, K, nd, kwd, va, vk, loc) :
            Q \in 0..P, nd \in 0..P,
            kwd \in UNION {[D -> DefaultValues] :
                       D \in SUBSET {ParamPool[i] : i \in P + 1..P + K}},
            va \in BOOLEAN, vk \in BOOLEAN, loc \in {<<>>, <<"x">>} }
        : K \in 0..Len(ParamPool) - P }
        : P \in 0..Len(ParamPool) }

\* the declared parameters of f, and how Python binds a call to them
Params(f) == {f.co_varnames[i] : i \in 1..f.co_argcount + f.co_kwonlyargcount}
PosOnly(f) == {f.co_varnames[i] : i \in 1..f.co_posonlyargcount}
KwOnly(f) ==
    {f.co_varnames[i] :
        i \in f.co_argcount + 1..f.co_argcount + f.co_kwonlyargcount}
Index(f, p) == CHOOSE i \in 1..Len(f.co_varnames) : f.co_varnames[i] = p

\* the parameters a call binds by position, and by keyword
BoundByPosition(f, c) ==
    {f.co_varnames[i] : i \in 1..Min(Len(c.args), f.co_argcount)}
BoundByKeyword(f, c) == (DOMAIN c.kwargs) \cap (Params(f) \ PosOnly(f))
Given(f, c) == BoundByPosition(f, c) \cup BoundByKeyword(f, c)

\* the parameters with a declared default, and that default
HasDefault(f, p) ==
    \/ p \in DOMAIN f.kwdefaults
    \/ /\ p \in Params(f) \ KwOnly(f)
       /\ Index(f, p) > f.co_argcount - Len(f.defaults)
Default(f, p) ==
    IF p \in DOMAIN f.kwdefaults THEN f.kwdefaults[p]
    ELSE f.defaults[Index(f, p) - (f.co_argcount - Len(f.defaults))]

\* the call of func binds without a TypeError
Legal(f, c) ==
    /\ Len(c.args) > f.co_argcount => f.varargs
    /\ \A n \in DOMAIN c.kwargs :
           IF n \in Params(f) \ PosOnly(f) THEN n \notin BoundByPosition(f, c)
           ELSE f.varkw
    /\ \A p \in Params(f) : p \in Given(f, c) \/ HasDefault(f, p)

\* the calls of f whose values are drawn from vals
Calls(f, vals) ==
    { c \in [args : UNION {[1..n -> vals] : n \in 0..f.co_argcount + MaxExtra},
             kwargs : UNION {[D -> vals] : D \in SUBSET Params(f)}] :
        Legal(f, c) }

----------------------------------------------------------------------------
(* argcomb._get_arg_dict *)

\* zip(reversed(pos_arg_names), reversed(pos_arg_defaults)) as a dict
ZipReversed(names, values) ==
    [n \in {names[Len(names) - i + 1] : i \in 1..Min(Len(names), Len(values))}
        |-> LET i == CHOOSE i \in 1..Len(names) : names[i] = n
            IN values[Len(values) - (Len(names) - i)]]

\* lines 324-332: the table of defaults
Defaults(all_arg_names, pos_arg_defaults, kw_arg_defaults, kw_only_arg_count) ==
    LET pos_arg_names ==
            IF kw_only_arg_count # 0
            THEN SubSeq(all_arg_names, 1, Len(all_arg_names) - kw_only_arg_count)
            ELSE all_arg_names
        positional ==
            IF pos_arg_defaults # <<>>
            THEN ZipReversed(pos_arg_names, pos_arg_defaults)
            ELSE EmptyDict
    IN IF kw_arg_defaults # EmptyDict
       THEN Update(positional, kw_arg_defaults)
       ELSE positional

\* the condition of both comprehensions: the value is not the default
NotDefault(defaults, arg_name, arg_value) ==
    arg_name \notin DOMAIN defaults \/ defaults[arg_name] # arg_value

\* lines 334-338: zip(all_arg_names, pos_arg_values), defaults left out
Positional(all_arg_names, pos_arg_values, defaults) ==
    LET n == Min(Len(all_arg_names), Len(pos_arg_values))
        kept == {i \in 1..n :
                    NotDefault(defaults, all_arg_names[i], pos_arg_values[i])}
    IN [name \in {all_arg_names[i] : i \in kept} |->
           pos_arg_values[CHOOSE i \in kept : all_arg_names[i] = name]]

\* lines 354-360: the keyword arguments, defaults left out
Keyword(kw_args, defaults) ==
    Restrict(kw_args,
             {n \in DOMAIN kw_args : NotDefault(defaults, n, kw_args[n])})

\* the dictionary returned, and the names warned about on the way (339-353)
_get_arg_dict(pos_arg_values, kw_args, all_arg_names, pos_arg_defaults, kw_arg_defaults, kw_only_arg_count) ==
    LET defaults == Defaults(all_arg_names, pos_arg_defaults, kw_arg_defaults,
                             kw_only_arg_count)
        positional == Positional(all_arg_names, pos_arg_values, defaults)
    IN [arg_dict |-> Update(positional, Keyword(kw_args, defaults)),
        warned |-> (DOMAIN kw_args) \cap (DOMAIN positional)]

\* lines 289-296: the binder as the wrapper calls it
Bind(f, c) ==
    _get_arg_dict(c.args, c.kwargs, f.co_varnames, f.defaults, f.kwdefaults,
                  f.co_kwonlyargcount)

----------------------------------------------------------------------------
(* argcomb._check_all and argcomb._check.  A run is the exception raised   *)
(* so far (NoError: none) and the log of the _validate calls made, each    *)
(* with the source line of the call; once an exception is raised nothing   *)
(* more is evaluated.                                                      *)

NoError == [exc |-> "None", message |-> ""]

\* the backquote of the two messages, which a TLA+ string cannot hold
Tick == "'"

\* line 372: InvalidArgumentCombination for the default condition
DefaultError(condition_) ==
    [exc |-> "InvalidArgumentCombination",
     message |-> "Condition " \o Tick \o Format(condition_) \o Tick
                 \o " does not hold"]

\* argcomb._raise_error
_raise_error(arg_name, condition_) ==
    [exc |-> "InvalidArgumentCombination",
     message |-> "Argument " \o Tick \o arg_name \o Tick
                 \o " is not valid: condition " \o Tick
                 \o Format(condition_) \o Tick \o " does not hold"]

Entry(line, arg_name, condition_) ==
    [line |-> line, arg_name |-> arg_name, condition |-> condition_]

\* if not self._validate(arg_dict, condition): raise
Check(run, d, line, arg_name, condition_) ==
    IF run.error # NoError THEN run
    ELSE [log |-> Append(run.log, Entry(line, arg_name, condition_)),
          error |-> IF _validate(d, condition_) THEN NoError
                    ELSE IF line = 371 THEN DefaultError(condition_)
                    ELSE _raise_error(arg_name, condition_)]

\* a value-keyed ArgumentSpec, and a lookup in it
Dict(items) == [type |-> "dict", items |-> items]
Keys(arg_spec) == {arg_spec.items[i].key : i \in 1..Len(arg_spec.items)}
Lookup(arg_spec, key) ==
    arg_spec.items[CHOOSE i \in 1..Len(arg_spec.items) :
                       arg_spec.items[i].key = key].condition

RECURSIVE ItemsLoop(_, _, _, _, _)
\* lines 402-406: for arg_val, condition in arg_spec.items()
ItemsLoop(run, d, arg_name, items, i) ==
    IF i > Len(items) THEN run
    ELSE IF items[i].key # d[arg_name] \/ arg_name = Else
         THEN ItemsLoop(run, d, arg_name, items, i + 1)
         ELSE ItemsLoop(Check(run, d, 405, arg_name, items[i].condition),
                        d, arg_name, items, i + 1)

\* a bug lines 407-409 could have: Else only when no other key matched
ElseStepWhenUnmatched(run, d, arg_name, arg_spec) ==
    IF Else \in Keys(arg_spec) /\ d[arg_name] \notin Keys(arg_spec) \ {Else}
    THEN Check(run, d, 408, arg_name, Lookup(arg_spec, Else))
    ELSE run

\* lines 407-409: if Else in arg_spec
ElseStep(run, d, arg_name, arg_spec) ==
    IF Else \in Keys(arg_spec)
    THEN Check(run, d, 408, arg_name, Lookup(arg_spec, Else))
    ELSE run

\* argcomb._check
_check(run, d, arg_name, arg_spec) ==
    IF arg_name \notin DOMAIN d THEN run
    ELSE IF arg_spec.type # "dict" THEN Check(run, d, 399, arg_name, arg_spec)
    ELSE ElseStep(ItemsLoop(run, d, arg_name, arg_spec.items, 1),
                  d, arg_name, arg_spec)

RECURSIVE SpecLoop(_, _, _, _)
\* lines 376-377: for arg_name, arg_spec in self._spec.items()
SpecLoop(run, d, spec, i) ==
    IF i > Len(spec) THEN run
    ELSE SpecLoop(_check(run, d, spec[i].arg_name, spec[i].arg_spec),
                  d, spec, i + 1)

\* a bug _check_all could have: the default condition is checked last
CheckAllDefaultLast(d, default, spec) ==
    LET run == SpecLoop([error |-> NoError, log |-> <<>>], d, spec, 1)
    IN IF Truthy(default) THEN Check(run, d, 371, "", default) ELSE run

\* argcomb._check_all
_check_all(d, default, spec) ==
    LET run == [error |-> NoError, log |-> <<>>]
    IN SpecLoop(IF Truthy(default) THEN Check(run, d, 371, "", default)
                ELSE run,
                d, spec, 1)

----------------------------------------------------------------------------
(* The wrapper ret (lines 276-298), one action per statement, for each   *)
(* caller of the decorated function.                                       *)

Callers == {1, 2}
Values == {"None", "1", "2", "3"}

NoFunc == Function(0, 0, 0, 0, EmptyDict, FALSE, FALSE, <<>>)
NoCall == [args |-> <<>>, kwargs |-> EmptyDict]
NoResult == [body |-> "None", ret |-> "None"]

\* line 277: a call enters ret with the caller's args and kwargs
Enter(t, vals) ==
    /\ pc' = [pc EXCEPT ![t] = "bind"]
    /\ \E c \in Calls(func, vals) : call' = [call EXCEPT ![t] = c]
    /\ arg_dict' = [arg_dict EXCEPT ![t] = EmptyDict]
    /\ warned' = [warned EXCEPT ![t] = {}]
    /\ error' = [error EXCEPT ![t] = NoError]
    /\ log' = [log EXCEPT ![t] = <<>>]
    /\ executed' = [executed EXCEPT ![t] = 0]
    /\ received' = [received EXCEPT ![t] = NoCall]
    /\ result' = [result EXCEPT ![t] = NoResult]
    /\ UNCHANGED <<evalVars, ruleVars>>

\* a caller's first call of the decorated function
Call(t, vals) == pc[t] = "idle" /\ Enter(t, vals)

\* a caller calls again after its call returned or raised
CallAgain(t, vals) == pc[t] \in {"returned", "raised"} /\ Enter(t, vals)

\* a bug the wrapper could have: arg_dict kept on the decorator, one for
\* all callers
GetArgDictShared(t) ==
    /\ pc[t] = "bind"
    /\ arg_dict' = [u \in Callers |-> Bind(func, call[t]).arg_dict]
    /\ warned' = [warned EXCEPT ![t] = Bind(func, call[t]).warned]
    /\ pc' = [pc EXCEPT ![t] = "check"]
    /\ UNCHANGED <<evalVars, ruleVars, call, error, log, executed, received,
                   result>>

\* lines 289-296: arg_dict = self._get_arg_dict(...)
GetArgDict(t) ==
    /\ pc[t] = "bind"
    /\ arg_dict' = [arg_dict EXCEPT ![t] = Bind(func, call[t]).arg_dict]
    /\ warned' = [warned EXCEPT ![t] = Bind(func, call[t]).warned]
    /\ pc' = [pc EXCEPT ![t] = "check"]
    /\ UNCHANGED <<evalVars, ruleVars, call, error, log, executed, received,
                   result>>

\* line 297: self._check_all(arg_dict); an exception leaves ret
CheckAll(t) ==
    /\ pc[t] = "check"
    /\ LET run == _check_all(arg_dict[t], _default, _spec)
       IN /\ error' = [error EXCEPT ![t] = run.error]
          /\ log' = [log EXCEPT ![t] = run.log]
          /\ pc' = [pc EXCEPT ![t] =
                        IF run.error = NoError THEN "body" ELSE "raised"]
    /\ UNCHANGED <<evalVars, ruleVars, call, arg_dict, warned, executed,
                   received, result>>

\* a bug line 298 could have: the body is called with the supplied
\* arguments only
ForwardedFromArgDict(t) == [args |-> <<>>, kwargs |-> arg_dict[t]]

\* line 298: func is called with the caller's own args and kwargs
Forwarded(t) == call[t]

\* line 298: the wrapped body runs and returns some value
Body(t) ==
    /\ pc[t] = "body"
    /\ executed' = [executed EXCEPT ![t] = @ + 1]
    /\ received' = [received EXCEPT ![t] = Forwarded(t)]
    /\ \E v \in {"None", "1"} :
           result' = [result EXCEPT ![t].body = v]
    /\ pc' = [pc EXCEPT ![t] = "return"]
    /\ UNCHANGED <<evalVars, ruleVars, call, arg_dict, warned, error, log>>

\* line 298: return what the body returned
Return(t) ==
    /\ pc[t] = "return"
    /\ result' = [result EXCEPT ![t].ret = result[t].body]
    /\ pc' = [pc EXCEPT ![t] = "returned"]
    /\ UNCHANGED <<evalVars, ruleVars, call, arg_dict, warned, error, log,
                   executed, received>>

CallIdle ==
    /\ pc = [t \in Callers |-> "idle"]
    /\ call = [t \in Callers |-> NoCall]
    /\ arg_dict = [t \in Callers |-> EmptyDict]
    /\ warned = [t \in Callers |-> {}]
    /\ error = [t \in Callers |-> NoError]
    /\ log = [t \in Callers |-> <<>>]
    /\ executed = [t \in Callers |-> 0]
    /\ received = [t \in Callers |-> NoCall]
    /\ result = [t \in Callers |-> NoResult]

EvalIdle ==
    /\ condition = Str("a")
    /\ nesting = 0
    /\ supplied = EmptyDict
    /\ verdict = <<>>

----------------------------------------------------------------------------
(* The binder on its own: every signature, no rules, one caller *)

BindValues == {"None", "1"}

InitBind ==
    /\ EvalIdle
    /\ func \in Functions
    /\ _default = None
    /\ _spec = <<>>
    /\ CallIdle

NextBind ==
    \/ Call(1, BindValues)
    \/ GetArgDict(1)
    \/ CheckAll(1)
    \/ Body(1)
    \/ Return(1)

SpecBind == InitBind /\ [][NextBind]_vars

\* the binder has returned for the caller's call
Bound(t) == pc[t] \notin {"idle", "bind"}

\* the call passes parameter p explicitly with its declared default
PassesDefault(f, c, p) ==
    /\ HasDefault(f, p)
    /\ \/ p \in BoundByPosition(f, c) /\ c.args[Index(f, p)] = Default(f, p)
       \/ p \in BoundByKeyword(f, c) /\ c.kwargs[p] = Default(f, p)

\* the same call with p omitted exists: a keyword is dropped, or the
\* positional values end before p and the later ones are passed by keyword
CanOmit(f, c, p) ==
    \/ p \in BoundByKeyword(f, c)
    \/ /\ p \in BoundByPosition(f, c)
       /\ Len(c.args) <= f.co_argcount
       /\ \A j \in Index(f, p) + 1..Len(c.args) :
              f.co_varnames[j] \notin PosOnly(f)

Omit(f, c, p) ==
    IF p \in BoundByKeyword(f, c)
    THEN [args |-> c.args,
          kwargs |-> Restrict(c.kwargs, DOMAIN c.kwargs \ {p})]
    ELSE LET i == Index(f, p)
             later == {f.co_varnames[j] : j \in i + 1..Len(c.args)}
         IN [args |-> SubSeq(c.args, 1, i - 1),
             kwargs |-> Update(c.kwargs,
                               [n \in later |-> c.args[Index(f, n)]])]

\* C1: a call that passes a parameter explicitly with its declared default
\* yields the same supplied-argument mapping as the call with it omitted.
C1_DefaultIsOmitted ==
    Bound(1) =>
        \A p \in Params(func) :
            PassesDefault(func, call[1], p) /\ CanOmit(func, call[1], p)
                => arg_dict[1] = Bind(func, Omit(func, call[1], p)).arg_dict

\* C9: a declared parameter the caller gave no value for is absent from the
\* binder's result, and every name in the result was given a value, by
\* position through the signature or by keyword.
C9_OmittedIsAbsent ==
    Bound(1) =>
        /\ \A p \in Params(func) :
               p \notin BoundByPosition(func, call[1]) \cup DOMAIN call[1].kwargs
                   => p \notin DOMAIN arg_dict[1]
        /\ DOMAIN arg_dict[1] \subseteq
               BoundByPosition(func, call[1]) \cup DOMAIN call[1].kwargs

\* the names the binder pairs with a positional value (the zip of line 336)
Paired(f, c) ==
    {f.co_varnames[i] : i \in 1..Min(Len(c.args), Len(f.co_varnames))}

\* C10: the warning is emitted exactly for the names that a call binds both
\* by a positional value and by a keyword value, and the binder returns.
C10_WarnedIffBoundTwice ==
    Bound(1) => warned[1] = Paired(func, call[1]) \cap DOMAIN call[1].kwargs

----------------------------------------------------------------------------
(* The validator: rule sets in the forms of the module's documentation,    *)
(* three decorated functions, one caller.                                  *)

name_a == Str("a")
name_b == Str("b")
name_c == Str("c")

Item(key, condition_) == [key |-> key, condition |-> condition_]
Rule(arg_name, arg_spec) == [arg_name |-> arg_name, arg_spec |-> arg_spec]

\* the default conditions: none, Or("a", "b"), Not(Xor("a", "b", "c"))
DefaultConditions ==
    {None, Or(<<name_a, name_b>>), Not(Xor(<<name_a, name_b, name_c>>))}

\* the specifications of argument a: a condition or a dictionary
ArgSpecsA ==
    { name_c,
      Xor(<<name_b, name_c>>),
      Dict(<<Item("1", name_b), Item("2", name_c)>>),
      Dict(<<Item("1", name_b), Item(Else, name_c)>>),
      Dict(<<Item(Else, name_b), Item("1", name_c)>>),
      Dict(<<Item("1", name_b), Item("2", name_c),
             Item(Else, Or(<<name_b, name_c>>))>>) }

\* the specification of argument b
ArgSpecsB == {name_c}

\* argcomb(default, **kwargs): kwargs keeps the order of its keywords
RuleSets ==
    LET A == {Rule("a", s) : s \in ArgSpecsA}
        B == {Rule("b", s) : s \in ArgSpecsB}
    IN {<<>>} \cup {<<r>> : r \in A \cup B}
       \cup {<<r, q>> : r \in A, q \in B} \cup {<<q, r>> : r \in A, q \in B}

\* def f(a=None, b=None, c=None): ...
\* def f(a, b=None, c=None): x = ...
\* def f(a=None, *args, b=None, c=None): ...
SpecFunctions ==
    { Function(3, 0, 0, 3, EmptyDict, FALSE, FALSE, <<>>),
      Function(3, 0, 0, 2, EmptyDict, FALSE, FALSE, <<"x">>),
      Function(1, 0, 2, 1, [n \in {"b", "c"} |-> "None"], TRUE, FALSE, <<>>) }

Init ==
    /\ EvalIdle
    /\ func \in SpecFunctions
    /\ _default \in DefaultConditions
    /\ _spec \in RuleSets
    /\ CallIdle

Next ==
    \/ Call(1, Values)
    \/ GetArgDict(1)
    \/ CheckAll(1)
    \/ Body(1)
    \/ Return(1)

Spec == Init /\ [][Next]_vars

\* _check_all has run for the caller's call
Checked(t) == pc[t] \notin {"idle", "bind", "check"}

\* the names supplied according to the binder
Supplied(t) == DOMAIN arg_dict[t]

\* the conditions _validate was asked about for argument p
Logged(t, p) ==
    {log[t][i].condition : i \in {j \in 1..Len(log[t]) : log[t][j].arg_name = p}}

\* the rules of the dictionary specifications of supplied arguments
SuppliedDicts(t) ==
    {i \in 1..Len(_spec) :
        _spec[i].arg_name \in Supplied(t) /\ _spec[i].arg_spec.type = "dict"}

\* C2: the conditions of every key equal to the value, and the Else
\* condition whenever there is an Else key
Required(arg_spec, v) ==
    {arg_spec.items[i].condition :
        i \in {j \in 1..Len(arg_spec.items) :
                 arg_spec.items[j].key # Else /\ arg_spec.items[j].key = v}}
    \cup (IF Else \in Keys(arg_spec) THEN {Lookup(arg_spec, Else)} ELSE {})

RequiredCatchAll(arg_spec, v) ==
    LET matched ==
            {arg_spec.items[i].condition :
                i \in {j \in 1..Len(arg_spec.items) :
                         arg_spec.items[j].key # Else
                         /\ arg_spec.items[j].key = v}}
    IN IF v \in Keys(arg_spec) \ {Else} THEN matched
       ELSE IF Else \in Keys(arg_spec) THEN {Lookup(arg_spec, Else)}
       ELSE {}

\* C3: the Else condition of a dictionary specification is applied exactly
\* when no other key equals the supplied value: a call whose value matches
\* a key is accepted or rejected by that key's condition alone.
C3_ElseOnlyWhenUnmatched ==
    Checked(1) =>
        \A i \in SuppliedDicts(1) :
            LET p == _spec[i].arg_name
                required == RequiredCatchAll(_spec[i].arg_spec, arg_dict[1][p])
            IN /\ Logged(1, p) \subseteq required
               /\ (\E r \in required : ~Holds(Supplied(1), r)) => error[1] # NoError

\* the rules that apply to a call, in the order of the claim: the default
\* condition if there is one, then for each supplied argument in the order
\* of declaration its condition, or the conditions of the keys equal to
\* its value followed by the Else condition
RECURSIVE Matched(_, _, _, _)
Matched(p, items, v, i) ==
    IF i > Len(items) THEN <<>>
    ELSE (IF items[i].key # Else /\ items[i].key = v
          THEN <<Entry(405, p, items[i].condition)>> ELSE <<>>)
         \o Matched(p, items, v, i + 1)

RulesOf(d, rule) ==
    LET p == rule.arg_name
    IN IF p \notin DOMAIN d THEN <<>>
       ELSE IF rule.arg_spec.type # "dict" THEN <<Entry(399, p, rule.arg_spec)>>
       ELSE Matched(p, rule.arg_spec.items, d[p], 1)
            \o (IF Else \in Keys(rule.arg_spec)
                THEN <<Entry(408, p, Lookup(rule.arg_spec, Else))>> ELSE <<>>)

RECURSIVE RulesFrom(_, _, _)
RulesFrom(d, spec, i) ==
    IF i > Len(spec) THEN <<>>
    ELSE RulesOf(d, spec[i]) \o RulesFrom(d, spec, i + 1)

RulesInOrder(d, default, spec) ==
    (IF default # None THEN <<Entry(371, "", default)>> ELSE <<>>)
    \o RulesFrom(d, spec, 1)

\* the exception of a violated rule
Violation(rule) ==
    IF rule.line = 371 THEN DefaultError(rule.condition)
    ELSE _raise_error(rule.arg_name, rule.condition)

C6_OnlySuppliedArgumentsChecked ==
    Checked(1) =>
        \A i \in 1..Len(_spec) :
            LET p == _spec[i].arg_name
                arg_spec == _spec[i].arg_spec
            IN /\ p \notin Given(func, call[1]) => Logged(1, p) = {}
               /\ PassesDefault(func, call[1], p) => Logged(1, p) = {}
               /\ ( /\ p \in Supplied(1)
                    /\ arg_spec.type = "dict"
                    /\ arg_dict[1][p] \notin Keys(arg_spec)
                    /\ Else \notin Keys(arg_spec) ) => Logged(1, p) = {}

----------------------------------------------------------------------------
(* Two callers of one decorated function, def f(a=None, b=None): ...,      *)
(* whose calls interleave statement by statement.                          *)

ConcValues == {"None", "1"}

ConcRuleSets ==
    { <<>>, <<Rule("a", name_b)>>, <<Rule("a", Dict(<<Item("1", name_b)>>))>>,
      <<Rule("b", Not(name_a))>> }

InitConc ==
    /\ EvalIdle
    /\ func = Function(2, 0, 0, 2, EmptyDict, FALSE, FALSE, <<>>)
    /\ _default \in {None, Or(<<name_a, name_b>>)}
    /\ _spec \in ConcRuleSets
    /\ CallIdle

NextConc ==
    \E t \in Callers :
        \/ Call(t, ConcValues)
        \/ CallAgain(t, ConcValues)
        \/ GetArgDict(t)
        \/ CheckAll(t)
        \/ Body(t)
        \/ Return(t)

SpecConc == InitConc /\ [][NextConc]_vars

\* C7: in every intercepted call the wrapped body runs at most once, only
\* after the whole validation passed and never when it raised; it is
\* called with exactly the args and kwargs of the caller, and what it
\* returns is what the wrapper returns.
C7_BodyAfterValidation ==
    \A t \in Callers :
        /\ executed[t] <= 1
        /\ executed[t] = 1 =>
               /\ pc[t] \in {"return", "returned"}
               /\ error[t] = NoError
               /\ log[t] = RulesInOrder(arg_dict[t], _default, _spec)
               /\ \A i \in 1..Len(log[t]) : Holds(Supplied(t), log[t][i].condition)
               /\ received[t] = call[t]
        /\ pc[t] \in {"return", "returned"} => executed[t] = 1
        /\ pc[t] = "raised" => executed[t] = 0 /\ error[t] # NoError
        /\ pc[t] = "returned" => result[t].ret = result[t].body

\* a call that passed a default explicitly returned the body's value: the
\* body received the value that the binder dropped
C7_Witness ==
    \E t \in Callers :
        /\ pc[t] = "returned"
        /\ result[t].ret = "1"
        /\ received[t] = call[t]
        /\ "b" \in DOMAIN call[t].kwargs
        /\ "b" \notin DOMAIN arg_dict[t]
        /\ Len(log[t]) > 0

\* the calls that have returned or raised
Done(t) == pc[t] \in {"returned", "raised"}

SameCallSameOutcome ==
    \A t, u \in Callers :
        Done(t) /\ Done(u) /\ call[t] = call[u]
            => pc[t] = pc[u] /\ error[t] = error[u]

\* C8: no step of any call changes the rule set, and calls made with the
\* same positional and keyword values end the same way, accepted or
\* rejected with the same error, however the callers' steps interleave
\* and whatever was validated before.
C8_NoStateBetweenCalls ==
    [][ /\ _default' = _default
        /\ _spec' = _spec
        /\ SameCallSameOutcome' ]_vars

\* both callers made the same call and both were rejected
C8_Witness ==
    /\ pc[1] = "raised"
    /\ pc[2] = "raised"
    /\ call[1] = call[2]
    /\ error[1] = error[2]
    /\ call[1].args # <<>>

----------------------------------------------------------------------------
(* The evaluator on its own *)

InitEval ==
    /\ condition \in {Str(n) : n \in EvalNames}
    /\ nesting = 0
    /\ supplied \in {DictOf(S) : S \in SUBSET EvalNames}
    /\ verdict = <<>>
    /\ func = NoFunc
    /\ _default = None
    /\ _spec = <<>>
    /\ CallIdle

NextEval == Construct \/ Validate

SpecEval == InitEval /\ [][NextEval]_vars

----------------------------------------------------------------------------
(* C4: _validate agrees with the boolean semantics of the condition tree *)

\* C4: whenever _validate has run on a condition tree, its result is the
\* tree's boolean value over the supplied names: a name is true iff
\* supplied, Not negates, And needs every child, Or at least one, Xor
\* exactly one (And() true, Or() and Xor() false).
C4_ValidateIsBooleanSemantics ==
    verdict # <<>> => verdict[1] = Holds(DOMAIN supplied, condition)

\* a nested Xor with three children, two of them true, was evaluated
C4_Witness ==
    /\ verdict = <<TRUE>>
    /\ condition.type = "NOT"
    /\ condition.args[1].type = "XOR"
    /\ Len(condition.args[1].args) = 3
    /\ Cardinality({i \in 1..3 :
           Holds(DOMAIN supplied, condition.args[1].args[i])}) = 2

====
